---- MODULE Spec2Model ----
(***************************************************************************)
(* A model of pytest-ansible-network-integration's lab provisioning core:  *)
(* CmlWrapper (bring_up / remove), SshWrapper, VirshWrapper.get_dhcp_lease *)
(* with its two polling loops, and the appliance_dhcp_address fixture that *)
(* composes them.  Texts are sequences of one-character strings, so that   *)
(* the regular expressions and the split / splitlines parsing of the code  *)
(* are computed as the code computes them.                                 *)
(***************************************************************************)
EXTENDS Integers, Sequences, FiniteSets, TLC

VARIABLES
    pc,               \* position of the fixture / of the method under call
    options,          \* the global OPTIONS: "none", "no_cml_lab" or "set"
    lab_file_exists,  \* os.path.exists(OPTIONS.cml_lab)
    current_lab_id,   \* CmlWrapper.current_lab_id: {} while unset, else {id}
    lab_existed,      \* CmlWrapper._lab_existed
    cmds,             \* the cml commands issued through CmlWrapper._run, in order
    status_out,       \* stdout of the "cml id" command of the last bring_up
    up_out,           \* stdout of the "cml up" command of the last bring_up
    up_err,           \* stderr of the "cml up" command of the last bring_up
    remove_calls,     \* number of calls of CmlWrapper.remove()
    remove_errs,      \* stderr of the commands of the last remove() that ran any
    github,           \* CI context: "none" (GITHUB_ACTIONS unset), "no_env"
                      \* (GITHUB_ENV unset or empty) or "file"
    env_file,         \* the text of the file GITHUB_ENV names
    started,          \* the ids of the labs started in the CI context, in order
    raised,           \* the exception propagating out of the operation
    virsh_bound,      \* the fixture's local `virsh` is bound
    ssh,              \* SshWrapper: session connected, channel state
    find_max,         \* max_attempts of _find_current_lab
    lease_max,        \* max_attempts of _find_dhcp_lease
    attempt,          \* the running loop's attempt counter
    virsh_ids,        \* domain ids of the current listing not yet dumped
    descs,            \* what "virsh dumpxml" prints for each domain of the
                      \* current listing, in listing order
    dump_fetches,     \* "virsh dumpxml" commands of the current attempt that
                      \* returned an output
    list_fetches,     \* "virsh list --all" commands that returned an output
    id_seen,          \* some fetched descriptor contained the lab id
    current_lab,      \* the parsed descriptor returned by _find_current_lab
    macs,             \* the list returned by _extract_macs
    lease_fetches,    \* "virsh net-dhcp-leases default" commands that returned
    table,            \* the rows (field lists) of the last lease table fetched
    mac_seen,         \* some fetched lease table had a 7-field row of a target MAC
    ips,              \* the list returned by _find_dhcp_lease
    last_cmd,         \* the last step get_dhcp_lease took on the hypervisor:
                      \* "none", "sleep", "list", "dumpxml" or "leases"
    ret,              \* what get_dhcp_lease returned or raised
    ip_address,       \* the address the fixture yields: {} or {ip}
    env_file_before,  \* the text of that file before the first lab start
    ssh_calls,        \* the calls of SshWrapper methods made on their own
    environ,          \* os.environ, for the variables env_vars reads
    variables,        \* the dict env_vars returned: {} or {dict}
    lease_text,       \* stdout of "virsh net-dhcp-leases default" to be parsed
    leases,           \* the MAC-to-IP dict parsed from lease_text: {} or {dict}
    gh_log,           \* the '::group::' / '::endgroup::' markers printed, in order
    tests_run,        \* tests run with the yielded address
    workers,          \* the test workers updating the env-record file
    selected,         \* the lab the cml tool has selected: {} or {id}
    removed,          \* the labs 'cml rm' has removed
    role_includes,    \* OPTIONS.role_includes: {} (None) or {text}
    role_excludes,    \* OPTIONS.role_excludes: {} (None) or {text}
    entries,          \* the entries of OPTIONS.integration_tests_path, in
                      \* iterdir() order
    tests             \* the parameters pytest_generate_tests produced

vars == <<pc, options, lab_file_exists, current_lab_id, lab_existed, cmds,
          status_out, up_out, up_err, remove_calls, remove_errs, github,
          env_file, started, raised, virsh_bound, ssh, find_max, lease_max,
          attempt, virsh_ids, descs, dump_fetches, list_fetches, id_seen, current_lab, macs,
          lease_fetches, table, mac_seen, ips, ret, ip_address, env_file_before,
          ssh_calls, environ, variables, lease_text, leases, last_cmd,
          gh_log, tests_run, workers, selected, removed, role_includes,
          role_excludes, entries, tests>>

cmlVars == <<current_lab_id, lab_existed, cmds, status_out, up_out, up_err,
             remove_calls, remove_errs, github, env_file, started>>

leaseVars == <<find_max, lease_max, attempt, virsh_ids, descs, dump_fetches,
               list_fetches, id_seen, current_lab, macs, lease_fetches, table,
               mac_seen, ips, ret, last_cmd>>

logVars == <<gh_log, tests_run>>

workerVars == <<workers, selected, removed>>

roleVars == <<role_includes, role_excludes, entries, tests>>

moreVars == <<logVars, workerVars, roleVars>>

auxVars == <<env_file_before, ssh_calls, environ, variables, lease_text,
             leases, moreVars>>

(***************************************************************************)
(* Bounds of the model.                                                    *)
(***************************************************************************)
MaxSegs == 2          \* segments a cml output is built from
MaxRemoveCalls == 2   \* remove() calls of the CmlWrapper harness
MaxBudget == 2        \* largest max_attempts the lease harness passes
MaxLines == 2         \* lines of a virsh listing / rows of a lease table
MaxMacs == 2          \* interfaces of a domain descriptor
MaxSshCalls == 3      \* calls of the SshWrapper harness
MaxEnvSegs == 2       \* segments the initial text of the GITHUB_ENV file is built from
MaxStarts == 2        \* bring_up calls of the CI harness
MaxTests == 1         \* tests run with the address the fixture yielded
MaxOptSegs == 2       \* segments a --role-includes / --role-excludes value
                      \* is built from

(***************************************************************************)
(* Texts.                                                                  *)
(***************************************************************************)
NL == "\n"

IsSpace(c) == c \in {" ", NL}

IsDigit(c) == c \in {"0", "1", "2", "3", "4", "5", "6", "7", "8", "9"}

Max(S) == CHOOSE m \in S : \A n \in S : n <= m

Min(S) == CHOOSE m \in S : \A n \in S : m <= n

The(opt) == CHOOSE v \in opt : TRUE

\* Python's `sub in s` on strings
IsSubstring(sub, s) ==
    \E i \in 0..(Len(s) - Len(sub)) : SubSeq(s, i + 1, i + Len(sub)) = sub

\* the concatenations of at most n members of segs
RECURSIVE Concats(_, _)
Concats(segs, n) ==
    IF n = 0 THEN {<< >>}
    ELSE LET shorter == Concats(segs, n - 1)
         IN  shorter \cup {s \o t : s \in shorter, t \in segs}

\* items joined by the separator text sep
RECURSIVE Join(_, _)
Join(items, sep) ==
    IF items = << >> THEN << >>
    ELSE IF Len(items) = 1 THEN items[1]
    ELSE items[1] \o sep \o Join(Tail(items), sep)

\* the sequences of at most n members of S
RECURSIVE SeqsUpTo(_, _)
SeqsUpTo(S, n) ==
    IF n = 0 THEN {<< >>}
    ELSE LET shorter == SeqsUpTo(S, n - 1)
         IN  shorter \cup {Append(s, x) : s \in shorter, x \in S}

(***************************************************************************)
(* Exceptions.                                                             *)
(***************************************************************************)
NoExc == [type |-> "none", msg |-> << >>, cause |-> << >>]

Exc(type, msg) == [type |-> type, msg |-> msg, cause |-> << >>]

\* raise exc from cause
ExcFrom(exc, cause) ==
    [exc EXCEPT !.cause = <<[type |-> cause.type, msg |-> cause.msg]>>]

PytestNetworkError(msg) == Exc("PytestNetworkError", msg)

(***************************************************************************)
(* CmlWrapper.                                                             *)
(***************************************************************************)
IdLiteral == <<"I", "D", ":", " ">>

LiteralAt(s, i) == i + 4 <= Len(s) /\ SubSeq(s, i + 1, i + 4) = IdLiteral

\* With ".*" having consumed i characters and "ID: " matched after them: the
\* lengths k of the \S+ group for which "\)\n" matches right after the group.
GroupLens(s, i) ==
    {k \in 1..(Len(s) - i - 6) :
        /\ \A j \in (i + 5)..(i + 4 + k) : ~IsSpace(s[j])
        /\ s[i + 5 + k] = ")"
        /\ s[i + 6 + k] = NL}

\* a mutant of ReMatchId: the group takes the closing parenthesis with it
ReMatchIdWithParen(s) ==
    LET starts == {i \in 0..Len(s) : LiteralAt(s, i) /\ GroupLens(s, i) # {}}
    IN  IF starts = {} THEN [matched |-> FALSE, id |-> << >>]
        ELSE LET i == Max(starts)
                 k == Max(GroupLens(s, i))
             IN  [matched |-> TRUE, id |-> SubSeq(s, i + 5, i + 5 + k)]

\* re.match(r".*ID: (?P<id>\S+)\)\n", s, re.DOTALL): ".*" and "\S+" are greedy,
\* so the match found first is the one with the longest ".*", then the longest
\* group.
ReMatchId(s) ==
    LET starts == {i \in 0..Len(s) : LiteralAt(s, i) /\ GroupLens(s, i) # {}}
    IN  IF starts = {} THEN [matched |-> FALSE, id |-> << >>]
        ELSE LET i == Max(starts)
                 k == Max(GroupLens(s, i))
             IN  [matched |-> TRUE, id |-> SubSeq(s, i + 5, i + 4 + k)]

LabFile == <<"l", "a", "b">>

CmdId == <<"id">>

CmdUp(file) == <<"up -f ", file>>

CmdUse(id) == <<"use --id ", id>>

CmdRm == <<"rm --force --no-confirm">>

\* a mutant of UpErrorMessage: the message carries stdout only
UpErrorMessageStdoutOnly(stdout, stderr) ==
    <<"Could not get lab ID: ">> \o stdout

\* f"Could not get lab ID: {stdout} {stderr}"
UpErrorMessage(stdout, stderr) ==
    <<"Could not get lab ID: ">> \o stdout \o <<" ">> \o stderr

\* CmlWrapper.bring_up(file) on a wrapper whose fields are id and existed, when
\* "cml id" prints idOut and "cml up" would print upOut / upErr: the fields
\* after the call, the commands run, whether a new lab was started, and the
\* exception raised.
bring_up(id, existed, file, idOut, upOut, upErr) ==
    LET status == ReMatchId(idOut)
        up == ReMatchId(upOut)
    IN  IF idOut # << >> /\ status.matched
        THEN [id |-> {status.id}, existed |-> TRUE, run |-> <<CmdId>>,
              up_ran |-> FALSE, started |-> FALSE, exc |-> NoExc]
        ELSE IF ~up.matched
        THEN [id |-> id, existed |-> existed, run |-> <<CmdId, CmdUp(file)>>,
              up_ran |-> TRUE, started |-> FALSE,
              exc |-> PytestNetworkError(UpErrorMessage(upOut, upErr))]
        ELSE [id |-> {up.id}, existed |-> existed,
              run |-> <<CmdId, CmdUp(file)>>, up_ran |-> TRUE,
              started |-> TRUE, exc |-> NoExc]

CmlLabsKey == <<"C", "M", "L", "_", "L", "A", "B", "S", "=">>

\* fh.readlines(): the lines of a text, each with its line ending
RECURSIVE ReadLines(_)
ReadLines(s) ==
    IF s = << >> THEN << >>
    ELSE LET nls == {i \in 1..Len(s) : s[i] = NL}
         IN  IF nls = {} THEN <<s>>
             ELSE <<SubSeq(s, 1, Min(nls))>>
                      \o ReadLines(SubSeq(s, Min(nls) + 1, Len(s)))

\* line.startswith(prefix)
StartsWith(line, prefix) ==
    Len(line) >= Len(prefix) /\ SubSeq(line, 1, Len(prefix)) = prefix

\* fh.writelines(data): the lines written one after the other
RECURSIVE WriteLines(_)
WriteLines(data) ==
    IF data = << >> THEN << >> ELSE Head(data) \o WriteLines(Tail(data))

\* the lines of _update_github_env after the lab id was added: a new
\* CML_LABS line at the end, or ",<id>" at the end of the first one
AddLabId(data, id) ==
    LET line_id == {idx \in 1..Len(data) : StartsWith(data[idx], CmlLabsKey)}
    IN  IF line_id = {}
        THEN Append(data, CmlLabsKey \o id)
        ELSE [data EXCEPT ![Min(line_id)] = @ \o <<",">> \o id]

\* CmlWrapper._update_github_env() on the text of the file GITHUB_ENV names:
\* the text written back
update_github_env(text, id) == WriteLines(AddLabId(ReadLines(text), id))

\* a file holding old after new was written at its start by a writer that
\* opened it before old got there
Overwrite(old, new) ==
    IF Len(new) >= Len(old) THEN new
    ELSE new \o SubSeq(old, Len(new) + 1, Len(old))

\* a mutant of remove: the lab is deleted whether or not it pre-existed
removeAlways(id, existed, useErr, rmErr) ==
    [run |-> <<CmdUse(The(id)), CmdRm>>, errs |-> <<useErr, rmErr>>,
     exc |-> NoExc]

\* a mutant of remove: an error of "use --id" ends the removal
removeUntilError(id, existed, useErr, rmErr) ==
    IF existed THEN [run |-> << >>, errs |-> << >>, exc |-> NoExc]
    ELSE IF useErr # << >>
    THEN [run |-> <<CmdUse(The(id))>>, errs |-> <<useErr>>, exc |-> NoExc]
    ELSE [run |-> <<CmdUse(The(id)), CmdRm>>, errs |-> <<useErr, rmErr>>,
          exc |-> NoExc]

\* CmlWrapper.remove() when its two commands would write useErr and rmErr to
\* stderr: the commands it runs, what they wrote to stderr, and the exception
\* raised (a stderr text is logged, never raised)
remove(id, existed, useErr, rmErr) ==
    IF existed THEN [run |-> << >>, errs |-> << >>, exc |-> NoExc]
    ELSE [run |-> <<CmdUse(The(id)), CmdRm>>, errs |-> <<useErr, rmErr>>,
          exc |-> NoExc]

(***************************************************************************)
(* SshWrapper.                                                             *)
(***************************************************************************)
\* what the remote end does to one call of execute: whether the session is
\* still connected when the call starts, whether a reconnect would succeed,
\* and whether the channel runs the command
SshEnvs ==
    {[alive |-> TRUE,  reconnect |-> TRUE,  exec |-> TRUE],
     [alive |-> TRUE,  reconnect |-> TRUE,  exec |-> FALSE],
     [alive |-> FALSE, reconnect |-> TRUE,  exec |-> TRUE],
     [alive |-> FALSE, reconnect |-> TRUE,  exec |-> FALSE],
     [alive |-> FALSE, reconnect |-> FALSE, exec |-> TRUE]}

SshNew == [connected |-> FALSE, channel |-> "unset"]

LibsshSessionException == Exc("LibsshSessionException", << >>)

\* SshWrapper.connect(): session.connect, then a new channel
SshConnect(s, ok) ==
    IF ok THEN [ssh |-> [connected |-> TRUE, channel |-> "open"], exc |-> NoExc]
    ELSE [ssh |-> [s EXCEPT !.connected = FALSE], exc |-> LibsshSessionException]

\* SshWrapper.close(): closes the channel, the session is left as it is
SshClose(s) ==
    IF s.channel = "unset"
    THEN [ssh |-> s, exc |-> Exc("AttributeError", << >>)]
    ELSE [ssh |-> [s EXCEPT !.channel = "closed"], exc |-> NoExc]

\* SshWrapper.execute(command) under env: the wrapper afterwards, the
\* exception raised, whether the command's output came back, and the calls
\* made on the way (close, connect, the channel's exec_command)
SshExecute(s, env) ==
    LET seen == [s EXCEPT !.connected = s.connected /\ env.alive]
        closed == SshClose(seen)
        again == SshConnect(closed.ssh, env.reconnect)
    IN  IF seen.connected
        THEN [ssh |-> seen, exc |-> IF env.exec THEN NoExc ELSE LibsshSessionException,
              ran |-> env.exec, ops |-> <<"exec">>]
        ELSE IF closed.exc # NoExc
        THEN [ssh |-> closed.ssh, exc |-> closed.exc, ran |-> FALSE,
              ops |-> <<"close">>]
        ELSE IF again.exc # NoExc
        THEN [ssh |-> again.ssh, exc |-> again.exc, ran |-> FALSE,
              ops |-> <<"close", "connect">>]
        ELSE [ssh |-> again.ssh,
              exc |-> IF env.exec THEN NoExc ELSE LibsshSessionException,
              ran |-> env.exec, ops |-> <<"close", "connect", "exec">>]

(***************************************************************************)
(* VirshWrapper: the parsing of the command outputs.                       *)
(***************************************************************************)
\* str.splitlines()
RECURSIVE SplitLines(_)
SplitLines(s) ==
    IF s = << >> THEN << >>
    ELSE LET nls == {i \in 1..Len(s) : s[i] = NL}
         IN  IF nls = {} THEN <<s>>
             ELSE <<SubSeq(s, 1, Min(nls) - 1)>>
                      \o SplitLines(SubSeq(s, Min(nls) + 1, Len(s)))

\* str.split(): the maximal runs of non-whitespace characters
RECURSIVE Split(_)
Split(s) ==
    IF s = << >> THEN << >>
    ELSE IF IsSpace(s[1]) THEN Split(Tail(s))
    ELSE LET sp == {i \in 1..Len(s) : IsSpace(s[i])}
         IN  IF sp = {} THEN <<s>>
             ELSE <<SubSeq(s, 1, Min(sp) - 1)>> \o Split(SubSeq(s, Min(sp), Len(s)))

\* re.match(r"^\s(?P<id>\d+)", line): one whitespace character, then the
\* longest run of digits
VirshMatch(line) ==
    IF Len(line) >= 2 /\ IsSpace(line[1]) /\ IsDigit(line[2])
    THEN LET stops == {i \in 2..Len(line) : ~IsDigit(line[i])}
             last == IF stops = {} THEN Len(line) ELSE Min(stops) - 1
         IN  [matched |-> TRUE, id |-> SubSeq(line, 2, last)]
    ELSE [matched |-> FALSE, id |-> << >>]

\* the ids of the lines of a listing that match, in listing order
RECURSIVE MatchedIds(_)
MatchedIds(lines) ==
    IF lines = << >> THEN << >>
    ELSE LET m == VirshMatch(Head(lines))
         IN  (IF m.matched THEN <<m.id>> ELSE << >>) \o MatchedIds(Tail(lines))

VirshIds(stdout) == MatchedIds(SplitLines(stdout))

\* p[4].split("/")[0]
StripCidr(f) ==
    LET slashes == {i \in 1..Len(f) : f[i] = "/"}
    IN  IF slashes = {} THEN f ELSE SubSeq(f, 1, Min(slashes) - 1)

\* a mutant of LeaseEntry: the CIDR suffix is kept
LeaseEntryUnstripped(p) == [mac |-> p[3], ip |-> p[5]]

\* the entry p[2]: p[4].split("/")[0] of a 7-field row
LeaseEntry(p) == [mac |-> p[3], ip |-> StripCidr(p[5])]

\* a mutant of RowAccepted: rows of 7 fields or more are taken
RowAcceptedAtLeast(p) == Len(p) >= 7

\* if len(p) == 7
RowAccepted(p) == Len(p) = 7

\* the dict comprehension over the rows: a later row replaces an earlier one
\* with the same key
RECURSIVE LeasesOf(_)
LeasesOf(rows) ==
    IF rows = << >> THEN << >>
    ELSE LET before == LeasesOf(SubSeq(rows, 1, Len(rows) - 1))
             p == rows[Len(rows)]
         IN  IF RowAccepted(p)
             THEN [m \in (DOMAIN before) \cup {LeaseEntry(p).mac} |->
                     IF m = LeaseEntry(p).mac THEN LeaseEntry(p).ip ELSE before[m]]
             ELSE before

RECURSIVE RowsOf(_)
RowsOf(lines) ==
    IF lines = << >> THEN << >>
    ELSE <<Split(Head(lines))>> \o RowsOf(Tail(lines))

ParseLeases(stdout) == LeasesOf(RowsOf(SplitLines(stdout)))

\* a mutant of ResolveIps: the address of any leased MAC resolves
ResolveIpsAny(dict, ms) ==
    IF DOMAIN dict = {} THEN << >>
    ELSE <<dict[CHOOSE m \in DOMAIN dict : TRUE]>>

\* [leases[mac] for mac in macs if mac in leases]
RECURSIVE ResolveIps(_, _)
ResolveIps(dict, ms) ==
    IF ms = << >> THEN << >>
    ELSE (IF Head(ms) \in DOMAIN dict THEN <<dict[Head(ms)]>> ELSE << >>)
             \o ResolveIps(dict, Tail(ms))

\* a mutant of LeaseResult: the first address is returned however many resolve
LeaseResultFirst(found) == [exc |-> NoExc, ip |-> {found[1]}]

\* the end of get_dhcp_lease: more than one address is an error
LeaseResult(found) ==
    IF Len(found) > 1
    THEN [exc |-> PytestNetworkError(<<"Found more than one IP">>), ip |-> {}]
    ELSE [exc |-> NoExc, ip |-> {found[1]}]

\* _extract_macs on a parsed descriptor: the list comprehension raises KeyError
\* where a key is missing, and TypeError where "interface" is a single mapping
\* (iterating it yields its keys, which are strings)
extract_macs(lab) ==
    CASE lab.shape = "list" -> [exc |-> NoExc, macs |-> lab.macs]
      [] lab.shape = "single" -> [exc |-> Exc("TypeError", << >>), macs |-> << >>]
      [] OTHER -> [exc |-> PytestNetworkError(<<"Failed to extract MAC addresses">>),
                   macs |-> << >>]

\* a mutant of MoreLeaseAttempts: one poll too many
MoreLeaseAttemptsInclusive(n, max) == n <= max

\* while attempt < max_attempts, in _find_dhcp_lease
MoreLeaseAttempts(n, max) == n < max

\* a mutant of MoreLabAttempts: one listing too many
MoreLabAttemptsInclusive(n, max) == n <= max

\* while attempt < max_attempts, in _find_current_lab
MoreLabAttempts(n, max) == n < max

(***************************************************************************)
(* The outputs the environment may produce.                                *)
(***************************************************************************)
CmlSegments ==
    {<<"I", "D", ":", " ", "a", ")", NL>>,
     <<"I", "D", ":", " ", "b", ")", NL>>,
     <<"I", "D", ":", " ", "a", ")">>,
     <<"x", " ", "(">>,
     <<")", NL>>}

CmlOutputs == Concats(CmlSegments, MaxSegs)

CmlErrors == {<< >>, <<"e">>}

FixtureStatusOutputs ==
    {<< >>, <<"x", " ", "(">>, <<"x", " ", "(", "I", "D", ":", " ", "a", ")", NL>>}

FixtureUpOutputs ==
    {<<"x", " ", "(">>, <<"x", " ", "(", "I", "D", ":", " ", "b", ")", NL>>}

LabIds == {<<"a">>, <<"a", "b">>}

ListLines ==
    {<<" ", "1", " ", "x">>,
     <<" ", "2">>,
     <<" ", "1", "2", " ", "x">>,
     <<" ", "-", " ", "x">>,
     <<" ", " ", "3">>}

Listings == {Join(ls, <<NL>>) : ls \in SeqsUpTo(ListLines, MaxLines)}

FixtureListings ==
    {<< >>, <<" ", "-", " ", "x">>, <<" ", "1", " ", "x", NL, " ", "2">>}

Macs == {<<"m">>, <<"n">>}

MacLists == SeqsUpTo(Macs, MaxMacs)

\* a "virsh dumpxml" output: its text for the substring test, and what
\* xmltodict.parse makes of it
Parsed ==
    [shape : {"list"}, macs : MacLists]
        \cup [shape : {"single", "no_interface", "no_mac", "malformed"},
              macs : {<< >>}]

Dumps ==
    [text : {<<"x">>, <<"x", "a", "x">>, <<"a", "b">>},
     xml : {[shape |-> "list", macs |-> <<<<"m">>>>],
            [shape |-> "no_interface", macs |-> << >>]}]

FixtureDumps ==
    [text : {<<"x", "a", "x">>},
     xml : {[shape |-> "list", macs |-> <<<<"m">>, <<"n">>>>],
            [shape |-> "list", macs |-> <<<<"m">>>>],
            [shape |-> "single", macs |-> << >>],
            [shape |-> "no_interface", macs |-> << >>],
            [shape |-> "malformed", macs |-> << >>]}]
        \cup [text : {<<"x">>, <<"b">>},
              xml : {[shape |-> "list", macs |-> <<<<"m">>>>]}]

\* the fields of a lease row: expiry date and time, MAC, protocol, address,
\* hostname, client id
LeaseFields(mac, ip) == <<<<"d">>, <<"t">>, mac, <<"p">>, ip, <<"h">>, <<"c">>>>

LeaseRows ==
    {LeaseFields(<<"m">>, <<"4", "/", "8">>),
     LeaseFields(<<"n">>, <<"5", "/", "8">>),
     LeaseFields(<<"n">>, <<"4", "/", "8">>),
     LeaseFields(<<"o">>, <<"6", "/", "8">>),
     LeaseFields(<<"m">>, <<"7">>),
     SubSeq(LeaseFields(<<"m">>, <<"4", "/", "8">>), 1, 6),
     Append(LeaseFields(<<"n">>, <<"5", "/", "8">>), <<"z">>)}

LeaseTables == SeqsUpTo(LeaseRows, MaxLines)

FixtureLeaseTables ==
    {<< >>,
     <<LeaseFields(<<"m">>, <<"4", "/", "8">>)>>,
     <<LeaseFields(<<"m">>, <<"4", "/", "8">>), LeaseFields(<<"n">>, <<"5", "/", "8">>)>>}

\* the text of a lease table: each row indented, its fields two spaces apart
RECURSIVE RenderRows(_)
RenderRows(rows) ==
    IF rows = << >> THEN << >>
    ELSE <<" ">> \o Join(Head(rows), <<" ", " ">>) \o <<NL>> \o RenderRows(Tail(rows))

(***************************************************************************)
(* Initial values.                                                         *)
(***************************************************************************)
NoLab == [shape |-> "none", macs |-> << >>]

NoRet == [exc |-> NoExc, ip |-> {}]

CmlNew ==
    /\ current_lab_id = {}
    /\ lab_existed = FALSE
    /\ cmds = << >>
    /\ status_out = << >>
    /\ up_out = << >>
    /\ up_err = << >>
    /\ remove_calls = 0
    /\ remove_errs = << >>
    /\ started = << >>

\* a run outside a CI context
NoCi ==
    /\ github = "none"
    /\ env_file = << >>

MoreNew ==
    /\ gh_log = << >>
    /\ tests_run = 0
    /\ workers = << >>
    /\ selected = {}
    /\ removed = {}
    /\ role_includes = {}
    /\ role_excludes = {}
    /\ entries = << >>
    /\ tests = << >>

AuxNew ==
    /\ env_file_before = env_file
    /\ ssh_calls = << >>
    /\ environ = << >>
    /\ variables = {}
    /\ lease_text = << >>
    /\ leases = {}
    /\ MoreNew

LeaseNew ==
    /\ attempt = 0
    /\ virsh_ids = << >>
    /\ descs = << >>
    /\ dump_fetches = 0
    /\ list_fetches = 0
    /\ id_seen = FALSE
    /\ current_lab = NoLab
    /\ macs = << >>
    /\ lease_fetches = 0
    /\ table = << >>
    /\ mac_seen = FALSE
    /\ ips = << >>
    /\ ret = NoRet
    /\ last_cmd = "none"

(***************************************************************************)
(* CmlWrapper's operations on the state.                                   *)
(***************************************************************************)
\* a mutant of UpdatesGithubEnv: GITHUB_ENV is not looked at
UpdatesGithubEnvAnyCi(startedLab, gh) == startedLab /\ gh # "none"

\* bring_up writes the env-record file: it started a lab, GITHUB_ACTIONS is
\* set, and _update_github_env finds GITHUB_ENV non-empty
UpdatesGithubEnv(startedLab, gh) == startedLab /\ gh = "file"

\* bring_up(file=lab_file), with the given command outputs, on a wrapper
\* whose fields are id and existed and which has run the commands ran
BringUpOn(id, existed, ran, idOut, upOut, upErr, okPc, errPc) ==
    LET r == bring_up(id, existed, LabFile, idOut, upOut, upErr)
    IN  /\ current_lab_id' = r.id
        /\ lab_existed' = r.existed
        /\ cmds' = ran \o r.run
        /\ status_out' = idOut
        /\ up_out' = IF r.up_ran THEN upOut ELSE << >>
        /\ up_err' = IF r.up_ran THEN upErr ELSE << >>
        /\ raised' = r.exc
        /\ pc' = IF r.exc = NoExc THEN okPc ELSE errPc
        /\ IF UpdatesGithubEnv(r.started, github)
           THEN /\ env_file' = update_github_env(env_file, The(r.id))
                /\ started' = Append(started, The(r.id))
           ELSE UNCHANGED <<env_file, started>>
        /\ UNCHANGED github

\* cml.bring_up(file=lab_file) with the given command outputs
DoBringUp(idOut, upOut, upErr, okPc, errPc) ==
    BringUpOn(current_lab_id, lab_existed, cmds, idOut, upOut, upErr, okPc, errPc)

\* cml.remove() when its commands would write useErr and rmErr to stderr
DoRemove(useErr, rmErr) ==
    LET r == remove(current_lab_id, lab_existed, useErr, rmErr)
    IN  /\ cmds' = cmds \o r.run
        /\ remove_calls' = remove_calls + 1
        /\ remove_errs' = IF r.run = << >> THEN remove_errs ELSE r.errs

(***************************************************************************)
(* CmlWrapper called on its own: bring_up, then remove() some times.       *)
(***************************************************************************)
CmlInit ==
    /\ pc = "cml_new"
    /\ options = "set"
    /\ lab_file_exists = TRUE
    /\ CmlNew
    /\ NoCi
    /\ raised = NoExc
    /\ virsh_bound = FALSE
    /\ ssh = SshNew
    /\ find_max = 0
    /\ lease_max = 0
    /\ LeaseNew
    /\ ip_address = {}
    /\ AuxNew

CmlBringUp ==
    /\ pc = "cml_new"
    /\ \E idOut \in CmlOutputs, upOut \in CmlOutputs, upErr \in CmlErrors :
          DoBringUp(idOut, upOut, upErr, "cml_up", "cml_failed")
    /\ UNCHANGED <<options, lab_file_exists, remove_calls, remove_errs,
                   virsh_bound, ssh, leaseVars, ip_address, auxVars>>

CmlRemove ==
    /\ pc = "cml_up"
    /\ remove_calls < MaxRemoveCalls
    /\ \E useErr \in CmlErrors, rmErr \in CmlErrors :
          /\ DoRemove(useErr, rmErr)
          /\ raised' = remove(current_lab_id, lab_existed, useErr, rmErr).exc
    /\ UNCHANGED <<pc, options, lab_file_exists, current_lab_id, lab_existed,
                   status_out, up_out, up_err, github, env_file, started,
                   virsh_bound, ssh, leaseVars, ip_address, auxVars>>

CmlNext == CmlBringUp \/ CmlRemove

SpecCml == CmlInit /\ [][CmlNext]_vars

(***************************************************************************)
(* bring_up in and out of a CI context: GITHUB_ACTIONS unset, or set with  *)
(* GITHUB_ENV empty or naming a file; each session makes a new CmlWrapper  *)
(* and calls bring_up.                                                     *)
(***************************************************************************)
EnvSegments ==
    {<<"x">>, <<"x", NL>>, CmlLabsKey \o <<"z">>, CmlLabsKey \o <<"z", NL>>}

EnvTexts == Concats(EnvSegments, MaxEnvSegs)

CiStatusOutputs == {<< >>, <<"I", "D", ":", " ", "a", ")", NL>>}

CiUpOutputs ==
    {<<"I", "D", ":", " ", "a", ")", NL>>, <<"I", "D", ":", " ", "b", ")", NL>>,
     <<"I", "D", ":", " ", "b", ")">>}

CiInit ==
    /\ pc = "ci"
    /\ options = "set"
    /\ lab_file_exists = TRUE
    /\ CmlNew
    /\ github \in {"none", "no_env", "file"}
    /\ env_file \in EnvTexts
    /\ raised = NoExc
    /\ virsh_bound = FALSE
    /\ ssh = SshNew
    /\ find_max = 0
    /\ lease_max = 0
    /\ LeaseNew
    /\ ip_address = {}
    /\ AuxNew

\* a session: CmlWrapper(...) and bring_up(file)
CiBringUp ==
    /\ pc = "ci"
    /\ Len(started) < MaxStarts
    /\ \E idOut \in CiStatusOutputs, upOut \in CiUpOutputs :
          BringUpOn({}, FALSE, << >>, idOut, upOut, << >>, "ci", "ci")
    /\ UNCHANGED <<options, lab_file_exists, remove_calls, remove_errs,
                   virsh_bound, ssh, leaseVars, ip_address, auxVars>>

CiNext == CiBringUp

SpecCi == CiInit /\ [][CiNext]_vars

(***************************************************************************)
(* SshWrapper called on its own: connect, execute and close in any order   *)
(* on a new wrapper.                                                       *)
(***************************************************************************)
SshInit ==
    /\ pc = "ssh"
    /\ options = "set"
    /\ lab_file_exists = TRUE
    /\ CmlNew
    /\ NoCi
    /\ raised = NoExc
    /\ virsh_bound = FALSE
    /\ ssh = SshNew
    /\ find_max = 0
    /\ lease_max = 0
    /\ LeaseNew
    /\ ip_address = {}
    /\ AuxNew

\* the record of a call: the wrapper as the call finds it, the calls made on
\* the session and the channel, the wrapper afterwards, the exception raised
SshCalled(method, before, ops, r) ==
    /\ ssh' = r.ssh
    /\ raised' = r.exc
    /\ ssh_calls' = Append(ssh_calls,
          [method |-> method, before |-> before, ops |-> ops, after |-> r.ssh,
           exc |-> r.exc])
    /\ UNCHANGED <<pc, options, lab_file_exists, cmlVars, virsh_bound,
                   leaseVars, ip_address, env_file_before, environ, variables,
                   lease_text, leases, moreVars>>

SshCallConnect ==
    /\ pc = "ssh"
    /\ Len(ssh_calls) < MaxSshCalls
    /\ \E ok \in BOOLEAN :
          SshCalled("connect", ssh, <<"connect">>, SshConnect(ssh, ok))

SshCallExecute ==
    /\ pc = "ssh"
    /\ Len(ssh_calls) < MaxSshCalls
    /\ \E env \in SshEnvs :
          LET r == SshExecute(ssh, env)
          IN  SshCalled("execute",
                        [ssh EXCEPT !.connected = ssh.connected /\ env.alive],
                        r.ops, r)

SshCallClose ==
    /\ pc = "ssh"
    /\ Len(ssh_calls) < MaxSshCalls
    /\ SshCalled("close", ssh, <<"close">>, SshClose(ssh))

SshNext == SshCallConnect \/ SshCallExecute \/ SshCallClose

SpecSsh == SshInit /\ [][SshNext]_vars

(***************************************************************************)
(* VirshWrapper.get_dhcp_lease, one step per remote command.               *)
(***************************************************************************)
SshUp == [connected |-> TRUE, channel |-> "open"]

\* get_dhcp_lease or one of its helpers raises exc
LeaseRaise(exc) ==
    /\ ret' = [exc |-> exc, ip |-> {}]
    /\ pc' = "lease_ret"

\* rows has a 7-field row whose MAC field is one of ms
HasTargetRow(rows, ms) ==
    \E n \in 1..Len(rows), k \in 1..Len(ms) :
        Len(rows[n]) = 7 /\ rows[n][3] = ms[k]

\* the command of an execute() call reached the hypervisor
Issued(r) == r.ops[Len(r.ops)] = "exec"

\* a mutant of GetLeaseStart: the searches start without the warm-up sleep
GetLeaseStartNoSleep ==
    /\ pc = "get_lease"
    /\ find_max' = 20
    /\ lease_max' = 100
    /\ attempt' = 0
    /\ pc' = "find_lab"
    /\ UNCHANGED <<options, lab_file_exists, cmlVars, raised, virsh_bound, ssh,
                   virsh_ids, descs, dump_fetches, list_fetches, id_seen,
                   current_lab, macs, lease_fetches, table, mac_seen, ips, ret,
                   last_cmd, ip_address, auxVars>>

\* the head of get_dhcp_lease: the warm-up sleep, then the two searches with
\* their budgets of 20 and 100 attempts
GetLeaseStart ==
    /\ pc = "get_lease"
    /\ last_cmd' = "sleep"
    /\ find_max' = 20
    /\ lease_max' = 100
    /\ attempt' = 0
    /\ pc' = "find_lab"
    /\ UNCHANGED <<options, lab_file_exists, cmlVars, raised, virsh_bound, ssh,
                   virsh_ids, descs, dump_fetches, list_fetches, id_seen,
                   current_lab, macs, lease_fetches, table, mac_seen, ips, ret,
                   ip_address, auxVars>>

\* _find_current_lab: the loop test and the "virsh list --all" of an attempt;
\* descs is what the hypervisor holds, at that attempt, as the descriptor of
\* each listed domain
FindLabList(listings, dumps) ==
    /\ pc = "find_lab"
    /\ IF MoreLabAttempts(attempt, find_max)
       THEN \E env \in SshEnvs, out \in listings :
              LET r == SshExecute(ssh, env)
                  ids == VirshIds(out)
              IN  /\ ssh' = r.ssh
                  /\ last_cmd' = IF Issued(r) THEN "list" ELSE last_cmd
                  /\ IF ~r.ran
                     THEN /\ LeaseRaise(r.exc)
                          /\ UNCHANGED <<list_fetches, virsh_ids, descs,
                                         dump_fetches>>
                     ELSE /\ list_fetches' = list_fetches + 1
                          /\ IF ids = << >>
                             THEN /\ LeaseRaise(PytestNetworkError(
                                        <<"No matching virsh IDs found">>))
                                  /\ UNCHANGED <<virsh_ids, descs, dump_fetches>>
                             ELSE /\ virsh_ids' = ids
                                  /\ descs' \in [1..Len(ids) -> dumps]
                                  /\ dump_fetches' = 0
                                  /\ pc' = "dump"
                                  /\ UNCHANGED ret
       ELSE /\ LeaseRaise(PytestNetworkError(<<"Could not find current lab">>))
            /\ UNCHANGED <<ssh, list_fetches, virsh_ids, descs, dump_fetches,
                           last_cmd>>
    /\ UNCHANGED <<options, lab_file_exists, cmlVars, raised, virsh_bound,
                   find_max, lease_max, attempt, id_seen, current_lab, macs,
                   lease_fetches, table, mac_seen, ips, ip_address, auxVars>>

\* a mutant of NextDump: the listed domains are dumped last to first
NextDumpFromEnd(listed, remaining) == Len(remaining)

\* for virsh_id in virsh_ids: the position, in the listing, of the domain
\* dumped next, when the ids in remaining have not been dumped yet
NextDump(listed, remaining) == Len(listed) - Len(remaining) + 1

\* _find_current_lab: the "virsh dumpxml" of the next listed id, or the end of
\* the attempt when every listed id has been dumped
FindLabDump ==
    /\ pc = "dump"
    /\ IF virsh_ids = << >>
       THEN /\ attempt' = attempt + 1
            /\ pc' = "find_lab"
            /\ UNCHANGED <<ssh, virsh_ids, descs, dump_fetches, id_seen,
                           current_lab, ret, last_cmd>>
       ELSE \E env \in SshEnvs :
              LET r == SshExecute(ssh, env)
                  d == descs[NextDump(descs, virsh_ids)]
              IN  /\ ssh' = r.ssh
                  /\ last_cmd' = IF Issued(r) THEN "dumpxml" ELSE last_cmd
                  /\ attempt' = attempt
                  /\ UNCHANGED descs
                  /\ IF ~r.ran
                     THEN /\ LeaseRaise(r.exc)
                          /\ UNCHANGED <<virsh_ids, dump_fetches, id_seen,
                                         current_lab>>
                     ELSE /\ dump_fetches' = dump_fetches + 1
                          /\ IF IsSubstring(The(current_lab_id), d.text)
                             THEN /\ id_seen' = TRUE
                                  /\ UNCHANGED virsh_ids
                                  /\ IF d.xml.shape = "malformed"
                                     THEN /\ LeaseRaise(Exc("ExpatError", << >>))
                                          /\ UNCHANGED current_lab
                                     ELSE /\ current_lab' = d.xml
                                          /\ pc' = "extract_macs"
                                          /\ UNCHANGED ret
                             ELSE /\ virsh_ids' = Tail(virsh_ids)
                                  /\ UNCHANGED <<pc, id_seen, current_lab, ret>>
    /\ UNCHANGED <<options, lab_file_exists, cmlVars, raised, virsh_bound,
                   find_max, lease_max, list_fetches, macs, lease_fetches,
                   table, mac_seen, ips, ip_address, auxVars>>

\* macs = self._extract_macs(current_lab); once it has returned, the locals
\* of the finished _find_current_lab call are gone
ExtractMacs ==
    /\ pc = "extract_macs"
    /\ LET r == extract_macs(current_lab)
       IN  IF r.exc # NoExc
           THEN /\ LeaseRaise(r.exc)
                /\ UNCHANGED <<macs, attempt, virsh_ids, descs, dump_fetches,
                               list_fetches, id_seen>>
           ELSE /\ macs' = r.macs
                /\ pc' = "lease"
                /\ attempt' = 0
                /\ virsh_ids' = << >>
                /\ descs' = << >>
                /\ dump_fetches' = 0
                /\ list_fetches' = 0
                /\ id_seen' = FALSE
                /\ UNCHANGED ret
    /\ UNCHANGED <<options, lab_file_exists, cmlVars, raised, virsh_bound, ssh,
                   find_max, lease_max, current_lab, lease_fetches, table,
                   mac_seen, ips, last_cmd, ip_address, auxVars>>

\* _find_dhcp_lease: the loop test and one poll of the lease table; when some
\* address resolves, the end of get_dhcp_lease as well
LeasePoll(tables) ==
    /\ pc = "lease"
    /\ IF MoreLeaseAttempts(attempt, lease_max)
       THEN \E rows \in tables :
              LET found == ResolveIps(ParseLeases(RenderRows(rows)), macs)
                  hit == HasTargetRow(rows, macs)
              IN  \E env \in SshEnvs :
                    LET r == SshExecute(ssh, env)
                    IN  /\ ssh' = r.ssh
                        /\ last_cmd' = IF Issued(r) THEN "leases" ELSE last_cmd
                        /\ IF ~r.ran
                           THEN /\ LeaseRaise(r.exc)
                                /\ UNCHANGED <<attempt, lease_fetches, table,
                                               mac_seen, ips>>
                           ELSE /\ lease_fetches' = lease_fetches + 1
                                /\ mac_seen' = (mac_seen \/ hit)
                                /\ IF found # << >>
                                   THEN /\ ips' = found
                                        /\ table' = rows
                                        /\ ret' = LeaseResult(found)
                                        /\ pc' = "lease_ret"
                                        /\ UNCHANGED attempt
                                   ELSE /\ attempt' = attempt + 1
                                        /\ UNCHANGED <<pc, table, ips, ret>>
       ELSE /\ LeaseRaise(PytestNetworkError(<<"Could not find IPs">>))
            /\ UNCHANGED <<ssh, attempt, lease_fetches, table, mac_seen, ips,
                           last_cmd>>
    /\ UNCHANGED <<options, lab_file_exists, cmlVars, raised, virsh_bound,
                   find_max, lease_max, virsh_ids, descs, dump_fetches,
                   list_fetches, id_seen, current_lab, macs, ip_address,
                   auxVars>>

(***************************************************************************)
(* _find_current_lab and _extract_macs called on their own, for every lab  *)
(* id and attempt budget.                                                  *)
(***************************************************************************)
FindLabInit ==
    /\ pc = "find_lab"
    /\ options = "set"
    /\ lab_file_exists = TRUE
    /\ current_lab_id \in {{x} : x \in LabIds}
    /\ lab_existed = FALSE
    /\ cmds = << >>
    /\ status_out = << >>
    /\ up_out = << >>
    /\ up_err = << >>
    /\ remove_calls = 0
    /\ remove_errs = << >>
    /\ started = << >>
    /\ NoCi
    /\ raised = NoExc
    /\ virsh_bound = TRUE
    /\ ssh = SshUp
    /\ find_max \in 0..MaxBudget
    /\ lease_max = 0
    /\ LeaseNew
    /\ ip_address = {}
    /\ AuxNew

FindLabNext == FindLabList(Listings, Dumps) \/ FindLabDump \/ ExtractMacs

SpecFindLab == FindLabInit /\ [][FindLabNext]_vars

(***************************************************************************)
(* _find_dhcp_lease and the end of get_dhcp_lease called on their own, for *)
(* every list of MACs and attempt budget.                                  *)
(***************************************************************************)
LeaseInit ==
    /\ pc = "lease"
    /\ options = "set"
    /\ lab_file_exists = TRUE
    /\ CmlNew
    /\ NoCi
    /\ raised = NoExc
    /\ virsh_bound = TRUE
    /\ ssh = SshUp
    /\ find_max = 0
    /\ lease_max \in 0..MaxBudget
    /\ attempt = 0
    /\ virsh_ids = << >>
    /\ descs = << >>
    /\ dump_fetches = 0
    /\ list_fetches = 0
    /\ id_seen = FALSE
    /\ current_lab = NoLab
    /\ macs \in MacLists
    /\ lease_fetches = 0
    /\ table = << >>
    /\ mac_seen = FALSE
    /\ ips = << >>
    /\ ret = NoRet
    /\ last_cmd = "none"
    /\ ip_address = {}
    /\ AuxNew

LeaseNext == LeasePoll(LeaseTables)

SpecLease == LeaseInit /\ [][LeaseNext]_vars

(***************************************************************************)
(* The parsing of a lease table in _find_dhcp_lease, applied on its own to *)
(* the text of every table.                                                *)
(***************************************************************************)
ParseInit ==
    /\ pc = "parse"
    /\ options = "set"
    /\ lab_file_exists = TRUE
    /\ CmlNew
    /\ NoCi
    /\ raised = NoExc
    /\ virsh_bound = TRUE
    /\ ssh = SshUp
    /\ find_max = 0
    /\ lease_max = 0
    /\ attempt = 0
    /\ virsh_ids = << >>
    /\ descs = << >>
    /\ dump_fetches = 0
    /\ list_fetches = 0
    /\ id_seen = FALSE
    /\ current_lab = NoLab
    /\ macs = << >>
    /\ lease_fetches = 0
    /\ table \in LeaseTables
    /\ mac_seen = FALSE
    /\ ips = << >>
    /\ ret = NoRet
    /\ last_cmd = "none"
    /\ ip_address = {}
    /\ env_file_before = env_file
    /\ ssh_calls = << >>
    /\ environ = << >>
    /\ variables = {}
    /\ lease_text = RenderRows(table)
    /\ leases = {}
    /\ MoreNew

\* leases = {p[2]: p[4].split("/")[0] for p in [...] if len(p) == 7}; a row
\* of 7 fields has the indices 2 and 4, so no IndexError is raised
ParseTable ==
    /\ pc = "parse"
    /\ leases' = {ParseLeases(lease_text)}
    /\ pc' = "parsed"
    /\ UNCHANGED <<options, lab_file_exists, cmlVars, raised, virsh_bound, ssh,
                   leaseVars, ip_address, env_file_before, ssh_calls, environ,
                   variables, lease_text, moreVars>>

ParseNext == ParseTable

SpecParse == ParseInit /\ [][ParseNext]_vars

(***************************************************************************)
(* The env_vars fixture, for every setting of the variables it reads.      *)
(***************************************************************************)
\* the keys of the dict and the environment variable each is read from
RequiredVariables ==
    [cml_host |-> "VIRL_HOST",
     cml_ui_user |-> "VIRL_USERNAME",
     cml_ui_password |-> "VIRL_PASSWORD",
     cml_ssh_user |-> "CML_SSH_USER",
     cml_ssh_password |-> "CML_SSH_PASSWORD",
     cml_ssh_port |-> "CML_SSH_PORT",
     network_os |-> "ANSIBLE_NETWORK_OS"]

DeviceVariables ==
    [device_username |-> "DEVICE_USERNAME", device_password |-> "DEVICE_PASSWORD"]

EnvNames ==
    {RequiredVariables[k] : k \in DOMAIN RequiredVariables}
        \cup {DeviceVariables[k] : k \in DOMAIN DeviceVariables}

\* a variable is unset ({}), set to the empty string or set to a value
EnvValues == {{}, {<< >>}, {<<"v">>}}

Ansible == <<"a", "n", "s", "i", "b", "l", "e">>

\* all(variables.values()): no value is None or empty
AllSet(values) == \A k \in DOMAIN values : values[k] \notin {{}, {<< >>}}

\* a mutant of EnvironGet: the default also replaces an empty value
EnvironGetNonEmpty(env, name, default) ==
    IF env[name] \in {{}, {<< >>}} THEN default ELSE The(env[name])

\* os.environ.get(name, default)
EnvironGet(env, name, default) ==
    IF env[name] = {} THEN default ELSE The(env[name])

\* required_environment_variables(): the dict returned or the exception
required_environment_variables(env) ==
    LET values == [k \in DOMAIN RequiredVariables |-> env[RequiredVariables[k]]]
    IN  IF ~AllSet(values)
        THEN [exc |-> PytestNetworkError(<<"CML environment variables not set">>),
              ret |-> {}]
        ELSE [exc |-> NoExc,
              ret |-> {[k \in (DOMAIN RequiredVariables) \cup (DOMAIN DeviceVariables) |->
                          IF k \in DOMAIN RequiredVariables
                          THEN The(values[k])
                          ELSE EnvironGet(env, DeviceVariables[k], Ansible)]}]

EnvVarsInit ==
    /\ pc = "env_vars"
    /\ options = "set"
    /\ lab_file_exists = TRUE
    /\ CmlNew
    /\ NoCi
    /\ raised = NoExc
    /\ virsh_bound = FALSE
    /\ ssh = SshNew
    /\ find_max = 0
    /\ lease_max = 0
    /\ LeaseNew
    /\ ip_address = {}
    /\ env_file_before = env_file
    /\ ssh_calls = << >>
    /\ environ \in [EnvNames -> EnvValues]
    /\ variables = {}
    /\ lease_text = << >>
    /\ leases = {}
    /\ MoreNew

EnvVarsCall ==
    /\ pc = "env_vars"
    /\ LET r == required_environment_variables(environ)
       IN  /\ raised' = r.exc
           /\ variables' = r.ret
           /\ pc' = IF r.exc = NoExc THEN "env_vars_returned" ELSE "env_vars_raised"
    /\ UNCHANGED <<options, lab_file_exists, cmlVars, virsh_bound, ssh,
                   leaseVars, ip_address, env_file_before, ssh_calls, environ,
                   lease_text, leases, moreVars>>

EnvVarsNext == EnvVarsCall

SpecEnvVars == EnvVarsInit /\ [][EnvVarsNext]_vars

(***************************************************************************)
(* CmlWrapper and the cml tool its commands drive: the tool keeps the lab  *)
(* it has selected, which "use --id" sets and "rm" acts on; other users of *)
(* the tool may select labs of their own in between.                       *)
(***************************************************************************)
OtherLab == <<"o">>

\* what a command of remove() that writes err to stderr does to the tool's
\* selected lab and to the labs removed; a command that reports an error
\* has changed nothing
CmlTool(cli, cmd, err) ==
    IF err # << >> THEN cli
    ELSE IF cmd[1] = "use --id " THEN [cli EXCEPT !.selected = {cmd[2]}]
    ELSE IF cmd = CmdRm THEN [cli EXCEPT !.removed = @ \cup cli.selected]
    ELSE cli

RECURSIVE CmlToolRun(_, _, _)
CmlToolRun(cli, run, errs) ==
    IF run = << >> THEN cli
    ELSE CmlToolRun(CmlTool(cli, Head(run), Head(errs)), Tail(run), Tail(errs))

RmInit ==
    /\ pc = "rm_new"
    /\ options = "set"
    /\ lab_file_exists = TRUE
    /\ CmlNew
    /\ NoCi
    /\ raised = NoExc
    /\ virsh_bound = FALSE
    /\ ssh = SshNew
    /\ find_max = 0
    /\ lease_max = 0
    /\ LeaseNew
    /\ ip_address = {}
    /\ AuxNew

\* bring_up: the lab adopted or started is the one the tool has selected
RmBringUp ==
    /\ pc = "rm_new"
    /\ \E idOut \in CiStatusOutputs, upOut \in CiUpOutputs, upErr \in CmlErrors :
          DoBringUp(idOut, upOut, upErr, "rm_up", "rm_failed")
    /\ selected' = current_lab_id'
    /\ UNCHANGED <<options, lab_file_exists, remove_calls, remove_errs,
                   virsh_bound, ssh, leaseVars, ip_address, env_file_before,
                   ssh_calls, environ, variables, lease_text, leases, logVars,
                   workers, removed, roleVars>>

\* another user of the tool selects a lab of its own
RmOtherUse ==
    /\ pc = "rm_up"
    /\ selected' = {OtherLab}
    /\ UNCHANGED <<pc, options, lab_file_exists, cmlVars, raised, virsh_bound,
                   ssh, leaseVars, ip_address, env_file_before, ssh_calls,
                   environ, variables, lease_text, leases, logVars, workers,
                   removed, roleVars>>

\* remove(), its commands acting on the tool
RmRemove ==
    /\ pc = "rm_up"
    /\ remove_calls < MaxRemoveCalls
    /\ \E useErr \in CmlErrors, rmErr \in CmlErrors :
          LET r == remove(current_lab_id, lab_existed, useErr, rmErr)
              cli == CmlToolRun([selected |-> selected, removed |-> removed],
                                r.run, r.errs)
          IN  /\ DoRemove(useErr, rmErr)
              /\ raised' = r.exc
              /\ selected' = cli.selected
              /\ removed' = cli.removed
    /\ UNCHANGED <<pc, options, lab_file_exists, current_lab_id, lab_existed,
                   status_out, up_out, up_err, github, env_file, started,
                   virsh_bound, ssh, leaseVars, ip_address, env_file_before,
                   ssh_calls, environ, variables, lease_text, leases, logVars,
                   workers, roleVars>>

RmNext == RmBringUp \/ RmOtherUse \/ RmRemove

SpecRm == RmInit /\ [][RmNext]_vars

(***************************************************************************)
(* Two test workers, each having started a lab of its own in CI, update    *)
(* the same env-record file; nothing orders their file operations.         *)
(***************************************************************************)
Workers == {1, 2}

WorkerIds == {<<"a">>, <<"b">>}

WorkersInit ==
    /\ pc = "workers"
    /\ options = "set"
    /\ lab_file_exists = TRUE
    /\ CmlNew
    /\ github = "file"
    /\ env_file \in EnvTexts
    /\ raised = NoExc
    /\ virsh_bound = FALSE
    /\ ssh = SshNew
    /\ find_max = 0
    /\ lease_max = 0
    /\ LeaseNew
    /\ ip_address = {}
    /\ env_file_before = env_file
    /\ ssh_calls = << >>
    /\ environ = << >>
    /\ variables = {}
    /\ lease_text = << >>
    /\ leases = {}
    /\ gh_log = << >>
    /\ tests_run = 0
    /\ \E ids \in [Workers -> WorkerIds] :
          /\ \A v, w \in Workers : v # w => ids[v] # ids[w]
          /\ workers = [w \in Workers |->
                           [pc |-> "update", id |-> ids[w], data |-> << >>]]
    /\ selected = {}
    /\ removed = {}
    /\ role_includes = {}
    /\ role_excludes = {}
    /\ entries = << >>
    /\ tests = << >>

WorkerUnchanged ==
    UNCHANGED <<pc, options, lab_file_exists, current_lab_id, lab_existed,
                cmds, status_out, up_out, up_err, remove_calls, remove_errs,
                github, started, raised, virsh_bound, ssh, find_max,
                lease_max, leaseVars, ip_address, env_file_before, ssh_calls,
                environ, variables, lease_text, leases, logVars, selected,
                removed, roleVars>>

\* with open(env_file, "r") as fh: data = fh.readlines()
WorkerRead(w) ==
    /\ workers[w].pc = "update"
    /\ workers' = [workers EXCEPT ![w].pc = "read",
                                  ![w].data = ReadLines(env_file)]
    /\ UNCHANGED env_file
    /\ WorkerUnchanged

\* the search for the CML_LABS line and open(env_file, "w"), which empties
\* the file
WorkerOpen(w) ==
    /\ workers[w].pc = "read"
    /\ workers' = [workers EXCEPT ![w].pc = "opened",
                                  ![w].data = AddLabId(@, workers[w].id)]
    /\ env_file' = << >>
    /\ WorkerUnchanged

\* fh.writelines(data) and the close of the file: the lines go to the start
\* of the file
WorkerWrite(w) ==
    /\ workers[w].pc = "opened"
    /\ workers' = [workers EXCEPT ![w].pc = "done"]
    /\ env_file' = Overwrite(env_file, WriteLines(workers[w].data))
    /\ WorkerUnchanged

WorkersNext ==
    \E w \in Workers : WorkerRead(w) \/ WorkerOpen(w) \/ WorkerWrite(w)

SpecWorkers == WorkersInit /\ [][WorkersNext]_vars

(***************************************************************************)
(* pytest_generate_tests and _filter_role, for every pair of filter        *)
(* options and a choice of directory listings.                             *)
(***************************************************************************)
\* str.split(","): the pieces between the commas, at least one
RECURSIVE SplitComma(_)
SplitComma(s) ==
    LET commas == {i \in 1..Len(s) : s[i] = ","}
    IN  IF commas = {} THEN <<s>>
        ELSE <<SubSeq(s, 1, Min(commas) - 1)>>
                 \o SplitComma(SubSeq(s, Min(commas) + 1, Len(s)))

\* a mutant of Strip: the piece is taken as it is
StripNothing(s) == s

\* str.strip(): leading and trailing whitespace removed
RECURSIVE Strip(_)
Strip(s) ==
    IF s = << >> THEN s
    ELSE IF IsSpace(s[1]) THEN Strip(Tail(s))
    ELSE IF IsSpace(s[Len(s)]) THEN Strip(SubSeq(s, 1, Len(s) - 1))
    ELSE s

\* [name.strip() for name in option.split(",")]
RECURSIVE StripAll(_)
StripAll(pieces) ==
    IF pieces = << >> THEN << >>
    ELSE <<Strip(Head(pieces))>> \o StripAll(Tail(pieces))

\* any(item in name for item in items)
AnyIn(items, name) == \E n \in 1..Len(items) : IsSubstring(items[n], name)

\* _filter_role(role): the reason for skipping the role, "" for none; an
\* option that is None or empty is no filter
filter_role(name, includes, excludes) ==
    IF /\ includes # {} /\ The(includes) # << >>
       /\ ~AnyIn(StripAll(SplitComma(The(includes))), name)
    THEN "Role not included by filter"
    ELSE IF /\ excludes # {} /\ The(excludes) # << >>
            /\ AnyIn(StripAll(SplitComma(The(excludes))), name)
    THEN "Role excluded by filter"
    ELSE ""

\* the loop of pytest_generate_tests over the entries of the root directory:
\* one parameter for each directory, marked to be skipped when _filter_role
\* gives a reason
RECURSIVE generate_params(_, _, _)
generate_params(listing, includes, excludes) ==
    IF listing = << >> THEN << >>
    ELSE (IF Head(listing).is_dir
          THEN <<[id |-> Head(listing).name,
                  skip |-> filter_role(Head(listing).name, includes, excludes)]>>
          ELSE << >>)
             \o generate_params(Tail(listing), includes, excludes)

\* pytest_generate_tests(metafunc): the parameters passed to
\* metafunc.parametrize, if any, and the exception raised
pytest_generate_tests(requested, opts, listing, includes, excludes) ==
    IF ~requested THEN [params |-> {}, exc |-> NoExc]
    ELSE IF opts = "none"
    THEN [params |-> {}, exc |-> PytestNetworkError(<<"pytest_configure not called">>)]
    ELSE [params |-> {generate_params(listing, includes, excludes)}, exc |-> NoExc]

OptSegments == {<<"a">>, <<"b">>, <<" ">>, <<",">>, <<",", "b">>}

OptValues == {{}} \cup {{t} : t \in Concats(OptSegments, MaxOptSegs)}

Dir(name) == [name |-> name, is_dir |-> TRUE]

File(name) == [name |-> name, is_dir |-> FALSE]

RoleListings ==
    {<< >>,
     <<Dir(<<"a", "b">>)>>,
     <<Dir(<<"b">>), File(<<"a">>), Dir(<<"c">>)>>,
     <<Dir(<<"c", "a">>), Dir(<<"c">>), Dir(<<"b", "a">>), File(<<"b">>)>>}

RolesInit ==
    /\ pc = "generate"
    /\ options \in {"none", "set"}
    /\ lab_file_exists = TRUE
    /\ CmlNew
    /\ NoCi
    /\ raised = NoExc
    /\ virsh_bound = FALSE
    /\ ssh = SshNew
    /\ find_max = 0
    /\ lease_max = 0
    /\ LeaseNew
    /\ ip_address = {}
    /\ env_file_before = env_file
    /\ ssh_calls = << >>
    /\ environ = << >>
    /\ variables = {}
    /\ lease_text = << >>
    /\ leases = {}
    /\ gh_log = << >>
    /\ tests_run = 0
    /\ workers = << >>
    /\ selected = {}
    /\ removed = {}
    /\ role_includes \in (IF options = "none" THEN {{}} ELSE OptValues)
    /\ role_excludes \in (IF options = "none" THEN {{}} ELSE OptValues)
    /\ entries \in RoleListings
    /\ tests = << >>

GenerateTests ==
    /\ pc = "generate"
    /\ \E requested \in BOOLEAN :
          LET r == pytest_generate_tests(requested, options, entries,
                                         role_includes, role_excludes)
          IN  /\ raised' = r.exc
              /\ tests' = IF r.params = {} THEN tests ELSE The(r.params)
              /\ pc' = IF r.exc # NoExc THEN "generate_raised"
                       ELSE IF r.params = {} THEN "not_generated"
                       ELSE "generated"
    /\ UNCHANGED <<options, lab_file_exists, cmlVars, virsh_bound, ssh,
                   leaseVars, ip_address, env_file_before, ssh_calls, environ,
                   variables, lease_text, leases, logVars, workerVars,
                   role_includes, role_excludes, entries>>

RolesNext == GenerateTests

SpecRoles == RolesInit /\ [][RolesNext]_vars

(***************************************************************************)
(* The appliance_dhcp_address fixture: setup up to the yield, then the     *)
(* teardown after it.                                                      *)
(***************************************************************************)
\* _github_action_log(marker): printed only when GITHUB_ACTIONS is set
github_action_log(log, gh, marker) ==
    IF gh = "none" THEN log ELSE Append(log, marker)

\* the reports of a test's phases as github_log finds them after the test: no
\* call phase when the setup of the test failed
TestOutcomes ==
    {[rep_call |-> FALSE, setup_passed |-> FALSE, call_failed |-> FALSE],
     [rep_call |-> TRUE, setup_passed |-> TRUE, call_failed |-> FALSE],
     [rep_call |-> TRUE, setup_passed |-> TRUE, call_failed |-> TRUE]}

\* the github_log fixture around one test: the markers it prints
github_log(log, gh, t) ==
    IF gh = "none" THEN log
    ELSE LET opened == github_action_log(log, gh, "group")
             failed == IF t.rep_call /\ t.setup_passed /\ t.call_failed
                       THEN github_action_log(opened, gh, "endgroup")
                       ELSE opened
         IN  github_action_log(failed, gh, "endgroup")

FixtureInit ==
    /\ pc = "start"
    /\ options \in {"none", "no_cml_lab", "set"}
    /\ lab_file_exists \in BOOLEAN
    /\ CmlNew
    /\ github \in {"none", "no_env", "file"}
    /\ env_file = << >>
    /\ raised = NoExc
    /\ virsh_bound = FALSE
    /\ ssh = SshNew
    /\ find_max = 0
    /\ lease_max = 0
    /\ LeaseNew
    /\ ip_address = {}
    /\ AuxNew

\* the checks of OPTIONS and of the lab file, and the CmlWrapper constructor;
\* os.path.exists(None) raises TypeError when --cml-lab was not given
FixtureStart ==
    /\ pc = "start"
    /\ CASE options = "none" ->
              /\ raised' = PytestNetworkError(<<"Missing CML lab options">>)
              /\ pc' = "except_outer"
         [] options = "no_cml_lab" ->
              /\ raised' = Exc("TypeError", << >>)
              /\ pc' = "finally"
         [] options = "set" /\ ~lab_file_exists ->
              /\ raised' = PytestNetworkError(<<"Missing lab file">>)
              /\ pc' = "except_outer"
         [] OTHER ->
              /\ raised' = raised
              /\ pc' = "bring_up"
    /\ gh_log' = github_action_log(gh_log, github, "group")
    /\ UNCHANGED <<options, lab_file_exists, cmlVars, virsh_bound, ssh,
                   leaseVars, ip_address, env_file_before, ssh_calls, environ,
                   variables, lease_text, leases, tests_run, workerVars,
                   roleVars>>

\* cml.bring_up(file=lab_file)
FixtureBringUp ==
    /\ pc = "bring_up"
    /\ \E idOut \in FixtureStatusOutputs, upOut \in FixtureUpOutputs,
          upErr \in CmlErrors :
          DoBringUp(idOut, upOut, upErr, "virsh_init", "except_outer")
    /\ UNCHANGED <<options, lab_file_exists, remove_calls, remove_errs,
                   virsh_bound, ssh, leaseVars, ip_address, auxVars>>

\* virsh = VirshWrapper(...): the constructor connects; when the connection
\* fails, LibsshSessionException propagates and `virsh` stays unbound
FixtureVirshInit ==
    /\ pc = "virsh_init"
    /\ \E ok \in BOOLEAN :
          LET r == SshConnect(SshNew, ok)
          IN  IF r.exc = NoExc
              THEN /\ ssh' = r.ssh
                   /\ virsh_bound' = TRUE
                   /\ pc' = "get_lease"
                   /\ UNCHANGED raised
              ELSE /\ raised' = r.exc
                   /\ pc' = "finally"
                   /\ UNCHANGED <<ssh, virsh_bound>>
    /\ UNCHANGED <<options, lab_file_exists, cmlVars, leaseVars, ip_address, auxVars>>

\* get_dhcp_lease has returned or raised: its locals are gone; a
\* PytestNetworkError enters the inner except clause, any other exception
\* leaves the try statement through finally
FixtureLeaseReturn ==
    /\ pc = "lease_ret"
    /\ IF ret.exc = NoExc
       THEN /\ ip_address' = ret.ip
            /\ pc' = "finally"
            /\ UNCHANGED raised
       ELSE /\ raised' = ret.exc
            /\ pc' = IF ret.exc.type = "PytestNetworkError"
                     THEN "except_inner" ELSE "finally"
            /\ UNCHANGED ip_address
    /\ attempt' = 0
    /\ virsh_ids' = << >>
    /\ descs' = << >>
    /\ dump_fetches' = 0
    /\ list_fetches' = 0
    /\ id_seen' = FALSE
    /\ current_lab' = NoLab
    /\ macs' = << >>
    /\ lease_fetches' = 0
    /\ table' = << >>
    /\ mac_seen' = FALSE
    /\ ips' = << >>
    /\ UNCHANGED <<options, lab_file_exists, cmlVars, virsh_bound, ssh,
                   find_max, lease_max, ret, last_cmd, auxVars>>

\* a mutant of FixtureExceptInner: cml.remove() is left out
FixtureExceptInnerNoRemove ==
    /\ pc = "except_inner"
    /\ ssh' = SshClose(ssh).ssh
    /\ raised' = ExcFrom(PytestNetworkError(
                     <<"Failed to get DHCP lease for the appliance">>), raised)
    /\ pc' = "except_outer"
    /\ UNCHANGED <<options, lab_file_exists, cmlVars, virsh_bound, leaseVars,
                   ip_address, auxVars>>

\* except PytestNetworkError (inner): virsh.close(), cml.remove(), raise ... from exc
FixtureExceptInner ==
    /\ pc = "except_inner"
    /\ ssh' = SshClose(ssh).ssh
    /\ \E useErr \in CmlErrors, rmErr \in CmlErrors :
          LET r == remove(current_lab_id, lab_existed, useErr, rmErr)
          IN  /\ DoRemove(useErr, rmErr)
              /\ raised' = IF r.exc # NoExc THEN r.exc
                            ELSE ExcFrom(PytestNetworkError(
                                   <<"Failed to get DHCP lease for the appliance">>),
                                   raised)
              /\ pc' = IF r.exc.type \in {"none", "PytestNetworkError"}
                        THEN "except_outer" ELSE "finally"
    /\ UNCHANGED <<options, lab_file_exists, current_lab_id, lab_existed,
                   status_out, up_out, up_err, github, env_file, started,
                   virsh_bound, leaseVars, ip_address, auxVars>>

\* except PytestNetworkError (outer): log, close the log group and re-raise
FixtureExceptOuter ==
    /\ pc = "except_outer"
    /\ pc' = "finally"
    /\ gh_log' = github_action_log(gh_log, github, "endgroup")
    /\ UNCHANGED <<options, lab_file_exists, cmlVars, raised, virsh_bound, ssh,
                   leaseVars, ip_address, env_file_before, ssh_calls, environ,
                   variables, lease_text, leases, tests_run, workerVars,
                   roleVars>>

\* a mutant of FixtureFinally: the finally clause does not close the wrapper
FixtureFinallyNoClose ==
    /\ pc = "finally"
    /\ pc' = IF raised = NoExc THEN "yielded" ELSE "setup_raised"
    /\ gh_log' = github_action_log(gh_log, github, "endgroup")
    /\ UNCHANGED <<options, lab_file_exists, cmlVars, raised, virsh_bound, ssh,
                   leaseVars, ip_address, env_file_before, ssh_calls, environ,
                   variables, lease_text, leases, tests_run, workerVars,
                   roleVars>>

\* finally: virsh.close(), then the log group is closed; reading the unbound
\* local `virsh` raises UnboundLocalError, which replaces the exception in
\* flight and ends the clause
FixtureFinally ==
    /\ pc = "finally"
    /\ IF ~virsh_bound
       THEN /\ raised' = Exc("UnboundLocalError", << >>)
            /\ pc' = "setup_raised"
            /\ UNCHANGED <<ssh, gh_log>>
       ELSE /\ ssh' = SshClose(ssh).ssh
            /\ pc' = IF raised = NoExc THEN "yielded" ELSE "setup_raised"
            /\ gh_log' = github_action_log(gh_log, github, "endgroup")
            /\ UNCHANGED raised
    /\ UNCHANGED <<options, lab_file_exists, cmlVars, virsh_bound, leaseVars,
                   ip_address, env_file_before, ssh_calls, environ, variables,
                   lease_text, leases, tests_run, workerVars, roleVars>>

\* a test that uses the yielded address runs, the github_log fixture around it
FixtureTest ==
    /\ pc = "yielded"
    /\ tests_run < MaxTests
    /\ tests_run' = tests_run + 1
    /\ \E t \in TestOutcomes : gh_log' = github_log(gh_log, github, t)
    /\ UNCHANGED <<pc, options, lab_file_exists, cmlVars, raised, virsh_bound,
                   ssh, leaseVars, ip_address, env_file_before, ssh_calls,
                   environ, variables, lease_text, leases, workerVars,
                   roleVars>>

\* the teardown after the yield: cml.remove(); an exception it raises
\* propagates (a PytestNetworkError after it was logged)
FixtureTeardown ==
    /\ pc = "yielded"
    /\ \E useErr \in CmlErrors, rmErr \in CmlErrors :
          LET r == remove(current_lab_id, lab_existed, useErr, rmErr)
          IN  /\ DoRemove(useErr, rmErr)
              /\ raised' = r.exc
              /\ pc' = IF r.exc = NoExc THEN "done" ELSE "teardown_raised"
    /\ gh_log' = github_action_log(
                     github_action_log(gh_log, github, "group"), github, "endgroup")
    /\ UNCHANGED <<options, lab_file_exists, current_lab_id, lab_existed,
                   status_out, up_out, up_err, github, env_file, started,
                   virsh_bound, ssh, leaseVars, ip_address, env_file_before,
                   ssh_calls, environ, variables, lease_text, leases,
                   tests_run, workerVars, roleVars>>

Init == FixtureInit

Next ==
    \/ FixtureStart
    \/ FixtureBringUp
    \/ FixtureVirshInit
    \/ GetLeaseStart
    \/ FindLabList(FixtureListings, FixtureDumps)
    \/ FindLabDump
    \/ ExtractMacs
    \/ LeasePoll(FixtureLeaseTables)
    \/ FixtureLeaseReturn
    \/ FixtureExceptInner
    \/ FixtureExceptOuter
    \/ FixtureFinally
    \/ FixtureTest
    \/ FixtureTeardown

Spec == Init /\ [][Next]_vars

(***************************************************************************)
(* Claims about CmlWrapper.                                                *)
(***************************************************************************)
\* the tokens X for which "ID: X)" followed by a newline occurs in s, X being
\* non-empty and free of whitespace
IdTokens(s) ==
    {x \in {SubSeq(s, i, j) : i \in 1..Len(s), j \in 1..Len(s)} :
        /\ x # << >>
        /\ \A n \in 1..Len(x) : ~IsSpace(x[n])
        /\ IsSubstring(IdLiteral \o x \o <<")", NL>>, s)}

\* X is the token of the last occurrence of "ID: X)" + newline in s
IsLastIdToken(x, s) ==
    /\ x \in IdTokens(s)
    /\ \E n \in 0..Len(s) :
          LET head == IdLiteral \o x \o <<")", NL>>
          IN  /\ n + Len(head) <= Len(s)
              /\ SubSeq(s, n + 1, n + Len(head)) = head
              /\ IdTokens(SubSeq(s, n + Len(head) + 1, Len(s))) = {}

IsRemovalCmd(c) == c[1] \in {"use --id ", "rm --force --no-confirm"}

IsUpCmd(c) == c[1] = "up -f "

\* C2: while the lab is marked as pre-existing, no "use --id" and no
\* "rm --force --no-confirm" command has been issued, however many times
\* remove() was called.
C2_NoRemovalOfExistingLab ==
    lab_existed => \A n \in 1..Len(cmds) : ~IsRemovalCmd(cmds[n])

C2_Witness == lab_existed /\ remove_calls >= 2

\* C3: when the output of the status query contains "ID: X)" followed by a
\* newline, bring_up has set current_lab_id to exactly X (the X of the last
\* occurrence, should there be several), has set existed, and has issued no
\* "up -f" command.
C3_StatusMatchAdoptsLab ==
    (pc # "cml_new" /\ IdTokens(status_out) # {}) =>
        /\ \E x \in IdTokens(status_out) :
              current_lab_id = {x} /\ IsLastIdToken(x, status_out)
        /\ lab_existed
        /\ raised = NoExc
        /\ \A n \in 1..Len(cmds) : ~IsUpCmd(cmds[n])

C3_Witness ==
    /\ pc = "cml_up"
    /\ lab_existed
    /\ current_lab_id = {<<"a">>}
    /\ status_out = <<"x", " ", "(", "I", "D", ":", " ", "a", ")", NL>>

\* C4: when neither the status output nor the output of "up -f" contains
\* "ID: X)" followed by a newline, bring_up has raised PytestNetworkError with
\* a message that contains the stdout and the stderr of the "up" command, and
\* current_lab_id is not set.
C4_UpMismatchRaises ==
    (pc # "cml_new" /\ IdTokens(status_out) = {} /\ IdTokens(up_out) = {}) =>
        /\ \E n \in 1..Len(cmds) : IsUpCmd(cmds[n])
        /\ raised.type = "PytestNetworkError"
        /\ IsSubstring(up_out, raised.msg)
        /\ IsSubstring(up_err, raised.msg)
        /\ current_lab_id = {}

C4_Witness ==
    /\ pc = "cml_failed"
    /\ up_out = <<"x", " ", "(", "I", "D", ":", " ", "a", ")">>
    /\ up_err = <<"e">>
    /\ raised.type = "PytestNetworkError"

(***************************************************************************)
(* Claims about VirshWrapper.                                              *)
(***************************************************************************)
\* the positions of the MAC list ms for which rows has a 7-field row
TargetPositions(rows, ms) ==
    {k \in 1..Len(ms) : \E n \in 1..Len(rows) : Len(rows[n]) = 7 /\ rows[n][3] = ms[k]}

\* the address field of the last 7-field row of rows whose MAC field is mac
AddressFieldOf(rows, mac) ==
    rows[Max({n \in 1..Len(rows) : Len(rows[n]) = 7 /\ rows[n][3] = mac})][5]

\* x is the field f with everything from its first "/" removed
IsBeforeSlash(x, f) ==
    /\ \A n \in 1..Len(x) : x[n] # "/"
    /\ \/ x = f
       \/ \E n \in 1..Len(f) : f[n] = "/" /\ x = SubSeq(f, 1, n - 1)

\* C5: once a fetched lease table has a 7-field row for a target MAC,
\* get_dhcp_lease ends on that table; and when the table has such a row for
\* exactly one entry of the MAC list, it returns the address of that row with
\* everything from the "/" removed.
C5_SingleLeaseReturned ==
    mac_seen =>
        /\ pc = "lease_ret"
        /\ HasTargetRow(table, macs)
        /\ Cardinality(TargetPositions(table, macs)) = 1 =>
              /\ ret.exc = NoExc
              /\ \E x \in ret.ip :
                    /\ ret.ip = {x}
                    /\ IsBeforeSlash(x,
                          AddressFieldOf(table, macs[The(TargetPositions(table, macs))]))

C5_Witness ==
    /\ pc = "lease_ret"
    /\ macs = <<<<"n">>, <<"m">>>>
    /\ table = <<LeaseFields(<<"o">>, <<"6", "/", "8">>),
                 LeaseFields(<<"m">>, <<"4", "/", "8">>)>>
    /\ ret = [exc |-> NoExc, ip |-> {<<"4">>}]

\* C6: when the lease table get_dhcp_lease resolved from has 7-field rows for
\* two or more entries of the MAC list, it raises PytestNetworkError ("Found
\* more than one IP") and returns no address.
C6_AmbiguityRaises ==
    (pc = "lease_ret" /\ Cardinality(TargetPositions(table, macs)) >= 2) =>
        /\ ret.exc = PytestNetworkError(<<"Found more than one IP">>)
        /\ ret.ip = {}

C6_Witness ==
    /\ pc = "lease_ret"
    /\ macs = <<<<"m">>, <<"n">>>>
    /\ table = <<LeaseFields(<<"m">>, <<"4", "/", "8">>),
                 LeaseFields(<<"n">>, <<"5", "/", "8">>)>>
    /\ ret.exc.type = "PytestNetworkError"

\* C7: while no target MAC has appeared, every attempt has fetched the lease
\* table once; when every fetch returned a table and no target MAC ever
\* appeared, _find_dhcp_lease has fetched exactly max_attempts tables and then
\* raised PytestNetworkError ("Could not find IPs"); it never returns an empty
\* list.
C7_LeaseBudgetExhausted ==
    /\ (pc = "lease" /\ ~mac_seen) =>
          lease_fetches = attempt /\ attempt <= lease_max
    /\ (pc = "lease_ret" /\ ~mac_seen /\ ret.exc.type # "LibsshSessionException") =>
          /\ lease_fetches = lease_max
          /\ ret.exc = PytestNetworkError(<<"Could not find IPs">>)
    /\ (pc = "lease_ret" /\ ret.exc.type # "LibsshSessionException"
            /\ ret.exc # PytestNetworkError(<<"Could not find IPs">>)) =>
          ips # << >>

C7_Witness ==
    /\ pc = "lease_ret"
    /\ ~mac_seen
    /\ macs = <<<<"m">>>>
    /\ lease_max = 2
    /\ lease_fetches = 2
    /\ ret.exc = PytestNetworkError(<<"Could not find IPs">>)

\* C8: when no fetched descriptor contained the lab id, _find_current_lab
\* raises PytestNetworkError only after max_attempts listings have been
\* fetched, also when a listing shows no domain at all.
C8_NotFoundOnlyAfterBudget ==
    (pc = "lease_ret" /\ ~id_seen /\ ret.exc.type = "PytestNetworkError"
        /\ current_lab = NoLab) =>
        list_fetches = find_max

(***************************************************************************)
(* Claims about the appliance_dhcp_address fixture.                        *)
(***************************************************************************)
\* bring_up of this run started a new lab
LabStarted == current_lab_id # {} /\ ~lab_existed

\* the fixture has left its setup phase (yielded or raised)
SetupEnded == pc \in {"yielded", "setup_raised", "done"}

\* the fixture has ended: setup raised, or the teardown after the yield ran
FixtureEnded == pc \in {"setup_raised", "done", "teardown_raised"}

\* C1: when bring_up has started a new lab, the fixture does not end without
\* a call of CmlWrapper.remove(), whichever way it ends.
C1_StartedLabRemoved ==
    (FixtureEnded /\ LabStarted) => remove_calls >= 1

C10_AcquisitionErrorKept ==
    (pc = "setup_raised"
        /\ \/ options = "none"
           \/ options = "set" /\ ~lab_file_exists
           \/ options = "set" /\ lab_file_exists /\ current_lab_id = {}) =>
        raised.type = "PytestNetworkError"

(***************************************************************************)
(* Claims about the removal of the lab.                                    *)
(***************************************************************************)
\* some command of the last remove() wrote to stderr
RemovalReportedError ==
    \E n \in 1..Len(remove_errs) : remove_errs[n] # << >>

\* C11: when a removal command of the teardown after the yield reported an
\* error, the fixture ends by raising PytestNetworkError to its caller.
C11_RemovalFailureRaised ==
    (pc \in {"done", "teardown_raised"} /\ RemovalReportedError) =>
        pc = "teardown_raised" /\ raised.type = "PytestNetworkError"

\* C20: for a lab that did not pre-exist, every remove() call has issued
\* "use --id <current_lab_id>" and then "rm --force --no-confirm", and nothing
\* else, whatever the commands wrote to stderr; and no call raised an error.
C20_RemoveIssuesBothCommands ==
    (pc = "cml_up" /\ ~lab_existed) =>
        /\ Len(cmds) = 2 + 2 * remove_calls
        /\ \A k \in 1..remove_calls :
              /\ cmds[2 * k + 1] = CmdUse(The(current_lab_id))
              /\ cmds[2 * k + 2] = CmdRm
        /\ remove_calls >= 1 => Len(remove_errs) = 2
        /\ raised = NoExc

C20_Witness ==
    /\ pc = "cml_up"
    /\ ~lab_existed
    /\ remove_calls = 1
    /\ remove_errs = <<<<"e">>, <<"e">>>>
    /\ cmds[Len(cmds)] = CmdRm

(***************************************************************************)
(* Claims about SshWrapper.                                                *)
(***************************************************************************)
\* C12: a call of execute that finds the session connected makes no close and
\* no connect and runs the command once; a call that finds it disconnected
\* makes one close, then one connect, then runs the command once, or, when
\* that connect fails, raises its error without running the command.
C12_ExecuteReconnectsOnce ==
    \A n \in 1..Len(ssh_calls) :
        LET c == ssh_calls[n]
        IN  c.method = "execute" =>
              IF c.before.connected
              THEN c.ops = <<"exec">>
              ELSE \/ c.ops = <<"close", "connect", "exec">>
                   \/ /\ c.ops = <<"close", "connect">>
                      /\ c.exc = LibsshSessionException

\* C13: a call of close raises no error and leaves the channel closed,
\* whether the channel was open, already closed or never opened; closing a
\* closed channel changes nothing.
C13_CloseIdempotent ==
    \A n \in 1..Len(ssh_calls) :
        LET c == ssh_calls[n]
        IN  c.method = "close" =>
              /\ c.exc = NoExc
              /\ c.after.channel = "closed"
              /\ c.before.channel = "closed" => c.after = c.before

(***************************************************************************)
(* Claims about the parsing of the lease table.                            *)
(***************************************************************************)
\* the rows of the table that have exactly 7 fields
SevenFieldRows == {n \in 1..Len(table) : Len(table[n]) = 7}

\* C14: the mapping parsed from the text of a lease table has an entry
\* exactly for the MAC field of every row of 7 fields, its value being the
\* address field of that row up to the first "/" (of the last such row, when
\* several rows carry the MAC); rows of another length add nothing, and no
\* error is raised.
C14_ParsedLeases ==
    pc = "parsed" =>
        /\ raised = NoExc
        /\ \E d \in leases :
              /\ leases = {d}
              /\ DOMAIN d = {table[n][3] : n \in SevenFieldRows}
              /\ \A n \in SevenFieldRows :
                    (\A k \in SevenFieldRows : table[k][3] = table[n][3] => k <= n)
                        => IsBeforeSlash(d[table[n][3]], table[n][5])

C14_Witness ==
    /\ pc = "parsed"
    /\ table = <<Append(LeaseFields(<<"n">>, <<"5", "/", "8">>), <<"z">>),
                 LeaseFields(<<"m">>, <<"4", "/", "8">>)>>
    /\ \E d \in leases : DOMAIN d = {<<"m">>} /\ d[<<"m">>] = <<"4">>

(***************************************************************************)
(* Claims about the search of the lab's domain.                            *)
(***************************************************************************)
\* the positions, in the current listing, of the domains whose descriptor
\* contains the lab id
MatchingDomains ==
    {k \in 1..Len(descs) : IsSubstring(The(current_lab_id), descs[k].text)}

\* C15: when _find_current_lab returns, it returns the parsed descriptor of
\* the first listed domain whose descriptor contains the lab id, and the
\* descriptors it fetched in that attempt are those of the domains listed up
\* to that one, none of a later domain; the result is a function of the
\* listing and the descriptors.
C15_FirstMatchReturned ==
    pc = "extract_macs" =>
        /\ MatchingDomains # {}
        /\ current_lab = descs[Min(MatchingDomains)].xml
        /\ dump_fetches = Min(MatchingDomains)

C15_Witness ==
    /\ pc = "extract_macs"
    /\ MatchingDomains = {1, 2}
    /\ descs[1].xml # descs[2].xml
    /\ current_lab = descs[1].xml
    /\ dump_fetches = 1

\* C16: _extract_macs on a descriptor without the shape
\* domain.devices.interface[*].mac.@address raises PytestNetworkError and no
\* other exception; on a descriptor with that shape it returns the MAC of
\* every interface entry.
C16_MacsOrParseError ==
    /\ (pc = "lease_ret" /\ current_lab.shape \notin {"none", "list"}) =>
          ret.exc.type = "PytestNetworkError"
    /\ (pc = "lease" /\ current_lab.shape = "list") => macs = current_lab.macs

(***************************************************************************)
(* Claims about the record of started labs.                                *)
(***************************************************************************)
\* the lines of a text that begin with "CML_LABS=", and the other ones
LabsLines(text) ==
    {n \in 1..Len(SplitLines(text)) : StartsWith(SplitLines(text)[n], CmlLabsKey)}

RECURSIVE OtherLines(_)
OtherLines(lines) ==
    IF lines = << >> THEN << >>
    ELSE (IF StartsWith(Head(lines), CmlLabsKey) THEN << >> ELSE <<Head(lines)>>)
             \o OtherLines(Tail(lines))

\* C17: after labs were started in a CI context, whatever the file held
\* before (with at most one "CML_LABS=" line), the file has exactly one line
\* beginning with "CML_LABS=": the line it had, or "CML_LABS=" when it had
\* none, followed by the ids of the labs started so far, in order and joined
\* by commas; and the other lines are the ones the file had.
C17_EnvRecordsStartedLabs ==
    (started # << >> /\ Cardinality(LabsLines(env_file_before)) <= 1) =>
        /\ Cardinality(LabsLines(env_file)) = 1
        /\ \A n \in LabsLines(env_file) :
              SplitLines(env_file)[n] =
                  IF LabsLines(env_file_before) = {}
                  THEN CmlLabsKey \o Join(started, <<",">>)
                  ELSE SplitLines(env_file_before)
                           [The(LabsLines(env_file_before))]
                           \o <<",">> \o Join(started, <<",">>)
        /\ OtherLines(SplitLines(env_file))
              = OtherLines(SplitLines(env_file_before))

(***************************************************************************)
(* Claims about the env_vars fixture.                                      *)
(***************************************************************************)
RequiredNames ==
    {"VIRL_HOST", "VIRL_USERNAME", "VIRL_PASSWORD", "CML_SSH_USER",
     "CML_SSH_PASSWORD", "CML_SSH_PORT", "ANSIBLE_NETWORK_OS"}

\* C18: env_vars raises PytestNetworkError when one of the seven required
\* variables is unset or empty; otherwise it returns the seven values, and
\* device_username and device_password, each "ansible" when its variable is
\* unset and the variable's value when it is set.
C18_EnvVarsRequired ==
    pc # "env_vars" =>
        IF \E n \in RequiredNames : environ[n] \in {{}, {<< >>}}
        THEN raised.type = "PytestNetworkError" /\ variables = {}
        ELSE /\ raised = NoExc
             /\ \E d \in variables :
                   /\ variables = {d}
                   /\ d.cml_host = The(environ["VIRL_HOST"])
                   /\ d.cml_ui_user = The(environ["VIRL_USERNAME"])
                   /\ d.cml_ui_password = The(environ["VIRL_PASSWORD"])
                   /\ d.cml_ssh_user = The(environ["CML_SSH_USER"])
                   /\ d.cml_ssh_password = The(environ["CML_SSH_PASSWORD"])
                   /\ d.cml_ssh_port = The(environ["CML_SSH_PORT"])
                   /\ d.network_os = The(environ["ANSIBLE_NETWORK_OS"])
                   /\ d.device_username =
                         IF environ["DEVICE_USERNAME"] = {} THEN Ansible
                         ELSE The(environ["DEVICE_USERNAME"])
                   /\ d.device_password =
                         IF environ["DEVICE_PASSWORD"] = {} THEN Ansible
                         ELSE The(environ["DEVICE_PASSWORD"])
                   /\ Cardinality(DOMAIN d) = 9

C18_Witness ==
    /\ pc = "env_vars_returned"
    /\ environ["DEVICE_USERNAME"] = {}
    /\ environ["DEVICE_PASSWORD"] = {<< >>}
    /\ \E d \in variables :
          d.device_username = Ansible /\ d.device_password = << >>

(***************************************************************************)
(* Claims about a failed address resolution.                               *)
(***************************************************************************)
\* C19: when get_dhcp_lease has raised PytestNetworkError, the fixture closes
\* the session, calls CmlWrapper.remove() exactly once and ends its setup by
\* raising PytestNetworkError("Failed to get DHCP lease for the appliance")
\* chained to the original error; it yields no address and never reaches the
\* teardown after the yield.
C19_LeaseFailureCleansUp ==
    ret.exc.type = "PytestNetworkError" =>
        /\ pc \in {"lease_ret", "except_inner", "except_outer", "finally",
                   "setup_raised"}
        /\ ip_address = {}
        /\ pc \in {"lease_ret", "except_inner"} => remove_calls = 0
        /\ pc \in {"except_outer", "finally", "setup_raised"} =>
              /\ ssh.channel = "closed"
              /\ remove_calls = 1
              /\ raised = ExcFrom(PytestNetworkError(
                             <<"Failed to get DHCP lease for the appliance">>),
                             ret.exc)

C19_Witness ==
    /\ pc = "setup_raised"
    /\ ret.exc = PytestNetworkError(<<"Could not find IPs">>)
    /\ remove_calls = 1
    /\ ssh.channel = "closed"
    /\ raised.msg = <<"Failed to get DHCP lease for the appliance">>
    /\ raised.cause # << >>

(***************************************************************************)
(* Claims about the polling of the lease table.                            *)
(***************************************************************************)
\* the k-th smallest element of the set S of numbers
RECURSIVE KthOf(_, _)
KthOf(S, k) == IF k = 1 THEN Min(S) ELSE KthOf(S \ {Min(S)}, k - 1)

\* C21: when a target MAC first appears in the k-th fetched lease table, with
\* k within the budget, _find_dhcp_lease returns right after that k-th
\* fetch, and the list it returns has, for each entry of the MAC list that
\* has a 7-field row in that table, in list order, the address of that row
\* up to its "/": nothing else, and nothing without such a row having been
\* fetched.
C21_ReturnsOnFirstTargetTable ==
    /\ mac_seen =>
          /\ pc = "lease_ret"
          /\ lease_fetches = attempt + 1
          /\ lease_fetches <= lease_max
          /\ Len(ips) = Cardinality(TargetPositions(table, macs))
          /\ \A j \in 1..Len(ips) :
                IsBeforeSlash(ips[j],
                    AddressFieldOf(table, macs[KthOf(TargetPositions(table, macs), j)]))
    /\ ips # << >> => mac_seen

C21_Witness ==
    /\ pc = "lease_ret"
    /\ mac_seen
    /\ lease_max = 2
    /\ lease_fetches = 2
    /\ macs = <<<<"n">>, <<"m">>>>
    /\ table = <<LeaseFields(<<"m">>, <<"4", "/", "8">>),
                 LeaseFields(<<"n">>, <<"5", "/", "8">>)>>
    /\ ips = <<<<"5">>, <<"4">>>>

\* C22: get_dhcp_lease decides on the distinct addresses the target MACs
\* resolve to: with more than one distinct address it raises
\* PytestNetworkError ("Found more than one IP"); when every target MAC found
\* resolves to the same address, it returns that address.
C22_AmbiguityOnDistinctAddresses ==
    (pc = "lease_ret" /\ ips # << >>) =>
        LET distinct == {ips[j] : j \in 1..Len(ips)}
        IN  IF Cardinality(distinct) > 1
            THEN /\ ret.exc = PytestNetworkError(<<"Found more than one IP">>)
                 /\ ret.ip = {}
            ELSE ret = [exc |-> NoExc, ip |-> distinct]

\* C23: in a run of get_dhcp_lease the warm-up sleep is the first step, before
\* any remote command; the first lease-table command is issued only after a
\* descriptor was matched and its MACs were extracted, right after a
\* "virsh dumpxml"; and once a lease-table command was issued, no listing
\* (nor any other kind of) command follows.
C23_StepsInOrder ==
    [][/\ (last_cmd = "none" /\ last_cmd' # "none") => last_cmd' = "sleep"
       /\ (last_cmd # "leases" /\ last_cmd' = "leases") =>
             /\ last_cmd = "dumpxml"
             /\ current_lab # NoLab
             /\ current_lab.shape = "list"
             /\ macs = current_lab.macs
       /\ last_cmd = "leases" => last_cmd' = "leases"
       /\ last_cmd' = "list" => last_cmd \in {"sleep", "list", "dumpxml"}]_vars

C23_Witness ==
    /\ pc = "lease_ret"
    /\ last_cmd = "leases"
    /\ lease_fetches = 2
    /\ ret.exc = NoExc

(***************************************************************************)
(* Claims about concurrent updates of the env-record file.                 *)
(***************************************************************************)
\* C24: when two workers have each started a lab and updated the same
\* env-record file, then whatever the order of their reads and writes, the
\* file holds both lab ids once both are done (the claim: in its CML_LABS
\* line).
C24_BothLabsRecorded ==
    (pc = "workers" /\ \A w \in Workers : workers[w].pc = "done") =>
        \A w \in Workers : IsSubstring(workers[w].id, env_file)

(***************************************************************************)
(* Claims about what remove() deletes.                                     *)
(***************************************************************************)
\* C25: the only lab the "rm --force --no-confirm" of remove() ever removes
\* is the lab whose id is current_lab_id, and only when this wrapper started
\* it; this also when the "use --id" before it failed.
C25_OnlyOwnLabRemoved ==
    pc = "rm_up" =>
        removed \subseteq (IF lab_existed THEN {} ELSE current_lab_id)

(***************************************************************************)
(* Claims about when bring_up writes the env-record file.                  *)
(***************************************************************************)
\* C26: a call of bring_up changes the env-record file only when it started
\* a new lab in that call, with GITHUB_ACTIONS set and GITHUB_ENV naming the
\* file, and then the file holds the new lab's id; when it adopts a running
\* lab, when the "up" output does not match, when GITHUB_ACTIONS is unset or
\* GITHUB_ENV is empty, the file is as it was.  So in CI the id of a lab is
\* added exactly when remove() would delete that lab.
C26_EnvFileWrittenOnStartOnly ==
    [][LET startedLab ==
               current_lab_id' # {} /\ ~lab_existed' /\ raised' = NoExc
       IN  IF startedLab /\ github = "file"
           THEN /\ env_file' # env_file
                /\ IsSubstring(The(current_lab_id'), env_file')
                /\ remove(current_lab_id', lab_existed', << >>, << >>).run # << >>
           ELSE env_file' = env_file]_vars

C26_Witness ==
    /\ pc = "ci"
    /\ github = "file"
    /\ env_file_before = <<"x", NL>>
    /\ lab_existed
    /\ current_lab_id = {<<"a">>}
    /\ env_file = <<"x", NL>> \o CmlLabsKey \o <<"b">>

(***************************************************************************)
(* Claims about the GitHub Actions log markers.                            *)
(***************************************************************************)
\* C27: in a GitHub Actions run the markers of github_log and of the
\* appliance_dhcp_address fixture are balanced on every path: the log
\* alternates between '::group::' and '::endgroup::', starting with a group
\* (so no '::endgroup::' comes without an open group and none comes twice),
\* and when the fixture has ended or a test is over, every group is closed.
C27_LogMarkersBalanced ==
    /\ \A n \in 1..Len(gh_log) :
          gh_log[n] = (IF n % 2 = 1 THEN "group" ELSE "endgroup")
    /\ (FixtureEnded \/ pc = "yielded") => Len(gh_log) % 2 = 0

(***************************************************************************)
(* Claims about the generated role tests.                                  *)
(***************************************************************************)
\* the filter substrings of an option value: each stretch between commas
\* (or the ends of the value), without the whitespace around it
FilterItems(text) ==
    LET commas == {c \in 1..Len(text) : text[c] = ","}
        starts == {1} \cup {c + 1 : c \in commas}
        endOf(i) == Min({c - 1 : c \in {d \in commas : d >= i}} \cup {Len(text)})
        inner(i) == {k \in i..endOf(i) : ~IsSpace(text[k])}
    IN  {IF inner(i) = {} THEN << >>
         ELSE SubSeq(text, Min(inner(i)), Max(inner(i))) : i \in starts}

\* no filter is given by an option that is unset or empty
NoFilter(opt) == opt = {} \/ opt = {<< >>}

\* the names of the directories among the entries, in order
RoleDirs == SelectSeq(entries, LAMBDA e : e.is_dir)

\* C28: pytest_generate_tests produces exactly one parameter per role
\* directory, in order and named after it; a role is not skipped exactly when
\* there is no include filter or its name contains some include substring,
\* and there is no exclude filter or its name contains no exclude substring;
\* a role failing the include test is skipped as "Role not included by
\* filter", any other role matching an exclude substring as "Role excluded
\* by filter".
C28_RolesFiltered ==
    pc = "generated" =>
        /\ Len(tests) = Len(RoleDirs)
        /\ \A k \in 1..Len(tests) :
              LET name == RoleDirs[k].name
                  included ==
                      \/ NoFilter(role_includes)
                      \/ \E x \in FilterItems(The(role_includes)) :
                            IsSubstring(x, name)
                  excluded ==
                      /\ ~NoFilter(role_excludes)
                      /\ \E x \in FilterItems(The(role_excludes)) :
                            IsSubstring(x, name)
              IN  /\ tests[k].id = name
                  /\ tests[k].skip =
                        IF ~included THEN "Role not included by filter"
                        ELSE IF excluded THEN "Role excluded by filter"
                        ELSE ""

C28_Witness ==
    /\ pc = "generated"
    /\ role_includes = {<<" ", "a">>}
    /\ role_excludes = {<<"b", " ">>}
    /\ entries = <<Dir(<<"c", "a">>), Dir(<<"c">>), Dir(<<"b", "a">>), File(<<"b">>)>>
    /\ tests = <<[id |-> <<"c", "a">>, skip |-> ""],
                 [id |-> <<"c">>, skip |-> "Role not included by filter"],
                 [id |-> <<"b", "a">>, skip |-> "Role excluded by filter"]>>

====
